---- MODULE Spec2Model ----
(***************************************************************************)
(* The expression pipeline of main.py: Lexer.tokenize, Parser (eat,       *)
(* factor, term, expr, parse), Interpreter (visit, visit_number,          *)
(* visit_binary_operation, interpret) and the read-eval-print loop repl.  *)
(*                                                                         *)
(* A source line is a sequence of one-character strings.  Positions are   *)
(* 0-based as in Python; code[pos + 1] is the character at offset pos.    *)
(* A text that the program prints or raises is a sequence of pieces (a    *)
(* piece is a literal fragment or one character) read as their            *)
(* concatenation.                                                          *)
(***************************************************************************)
EXTENDS Integers, Sequences, FiniteSets, TLC

VARIABLES
    loop,                 \* repl: "Running" inside `while True`, "Stopped" after break
    pc,                   \* position of the repl iteration
    code,                 \* Lexer.code, the line returned by input()
    current_pos,          \* Lexer.current_pos
    tokens,               \* Lexer.tokens, the same list object as Parser.tokens
    current_token_index,  \* Parser.current_token_index
    current_token,        \* Parser.current_token
    term_node,            \* local `node` of Parser.term
    term_token,           \* local `token` of Parser.term
    expr_node,            \* local `node` of Parser.expr
    expr_token,           \* local `token` of Parser.expr
    ast,                  \* local `ast` of repl
    raised,               \* the exception in flight to the except clause of repl
    result,               \* local `result` of repl
    printed,              \* lines written to stdout since the last prompt
    calls                 \* stages entered since the last prompt

vars == <<loop, pc, code, current_pos, tokens, current_token_index, current_token,
          term_node, term_token, expr_node, expr_token, ast, raised, result,
          printed, calls>>

-----------------------------------------------------------------------------
(* Bounds of the model *)

\* longest line over Alphabet
MaxLen == 3

\* most operands of a generated arithmetic line
MaxOperands == 3

\* how many eat() calls past the end of the token list the model follows
MaxOverrun == 2

-----------------------------------------------------------------------------
(* Characters *)

Digits == {"0", "1", "2", "3", "4", "5", "6", "7", "8", "9"}

Letters ==
    {"a", "b", "c", "d", "e", "f", "g", "h", "i", "j", "k", "l", "m",
     "n", "o", "p", "q", "r", "s", "t", "u", "v", "w", "x", "y", "z",
     "A", "B", "C", "D", "E", "F", "G", "H", "I", "J", "K", "L", "M",
     "N", "O", "P", "Q", "R", "S", "T", "U", "V", "W", "X", "Y", "Z"}

IdentStart == Letters \cup {"_"}

IdentChars == Letters \cup Digits \cup {"_"}

OperatorChars == {"+", "-", "*", "/"}

Quote == "\""

\* characters str.strip() removes
Whitespace == {" ", "\t", "\n", "\r", "\f"}

Min(S) == CHOOSE x \in S : \A y \in S : x <= y

-----------------------------------------------------------------------------
(* Lexer *)

Token(token_type, value) == [type |-> token_type, value |-> value]

\* the keys of `patterns` in insertion order
PatternOrder ==
    <<"NUMBER", "STRING", "IDENTIFIER", "ASSIGN", "OPERATOR", "LPAREN",
      "RPAREN", "LBRACE", "RBRACE", "NEWLINE", "SKIP">>

NoMatch == -1

\* the run cut to one character: the pattern without its `+`
RunEndOne(src, pos, S) ==
    IF pos < Len(src) /\ src[pos + 1] \in S THEN pos + 1 ELSE pos

\* end of the longest run of characters of S that starts at offset pos
RunEnd(src, pos, S) ==
    Min({e \in pos..Len(src) : e = Len(src) \/ src[e + 1] \notin S})

\* regex.match(src, pos) for a one-character class: match.end(0) or NoMatch
MatchOne(src, pos, S) ==
    IF src[pos + 1] \in S THEN pos + 1 ELSE NoMatch

\* regex.match(src, pos) for the pattern of token_type, pos < len(src):
\* match.end(0), or NoMatch when the pattern does not match at pos
MatchEnd(token_type, src, pos) ==
    CASE token_type = "NUMBER" ->
            IF src[pos + 1] \in Digits THEN RunEnd(src, pos, Digits) ELSE NoMatch
      [] token_type = "STRING" ->
            IF /\ src[pos + 1] = Quote
               /\ \E j \in (pos + 1)..(Len(src) - 1) : src[j + 1] = Quote
            THEN Min({j \in (pos + 1)..(Len(src) - 1) : src[j + 1] = Quote}) + 1
            ELSE NoMatch
      [] token_type = "IDENTIFIER" ->
            IF src[pos + 1] \in IdentStart
            THEN RunEnd(src, pos + 1, IdentChars)
            ELSE NoMatch
      [] token_type = "ASSIGN"   -> MatchOne(src, pos, {"="})
      [] token_type = "OPERATOR" -> MatchOne(src, pos, OperatorChars)
      [] token_type = "LPAREN"   -> MatchOne(src, pos, {"("})
      [] token_type = "RPAREN"   -> MatchOne(src, pos, {")"})
      [] token_type = "LBRACE"   -> MatchOne(src, pos, {"{"})
      [] token_type = "RBRACE"   -> MatchOne(src, pos, {"}"})
      [] token_type = "NEWLINE"  -> MatchOne(src, pos, {"\n"})
      [] token_type = "SKIP"     -> MatchOne(src, pos, {" ", "\t"})

\* the indices of PatternOrder whose pattern matches at pos
Matching(src, pos) ==
    {i \in 1..Len(PatternOrder) : MatchEnd(PatternOrder[i], src, pos) # NoMatch}

\* the for loop with NUMBER as `\d*`: where nothing else matches, NUMBER matches
\* the empty text at pos
FirstMatchEmpty(src, pos) ==
    IF Matching(src, pos) = {}
    THEN [found |-> TRUE, type |-> "NUMBER", end |-> pos]
    ELSE LET i == Min(Matching(src, pos))
         IN  [found |-> TRUE, type |-> PatternOrder[i],
              end |-> MatchEnd(PatternOrder[i], src, pos)]

\* the for loop of tokenize: the first pattern in order that matches, with its end
FirstMatch(src, pos) ==
    IF Matching(src, pos) = {}
    THEN [found |-> FALSE, type |-> "", end |-> pos]
    ELSE LET i == Min(Matching(src, pos))
         IN  [found |-> TRUE, type |-> PatternOrder[i],
              end |-> MatchEnd(PatternOrder[i], src, pos)]

\* no exception is in flight
NoException == [exc |-> "None", msg |-> <<>>]

\* the exception of line 51
UnexpectedCharacter(c) ==
    [exc |-> "Exception", msg |-> <<"Unexpected character: ", c>>]

\* the text from the start of the line to the end of the match
GroupFromStart(src, pos, end) == SubSeq(src, 1, end)

\* the text between the ends of the match: a string literal loses its quotes
GroupInner(src, pos, end) == SubSeq(src, pos + 2, end - 1)

\* match.group(0) of a match from offset pos to offset end
Group(src, pos, end) == SubSeq(src, pos + 1, end)

\* the loop body that steps over a character no pattern matches
LexStepSkipping(src, pos, toks) ==
    LET match == FirstMatch(src, pos)
    IN  [raised |-> NoException,
         pos    |-> IF match.found THEN match.end ELSE pos + 1,
         tokens |-> IF match.found /\ match.type # "SKIP"
                    THEN Append(toks, Token(match.type, Group(src, pos, match.end)))
                    ELSE toks]

\* the loop body that appends a token for every match, SKIP too
LexStepKeepingSkip(src, pos, toks) ==
    LET match == FirstMatch(src, pos)
    IN  IF match.found
        THEN [raised |-> NoException,
              pos    |-> match.end,
              tokens |-> Append(toks, Token(match.type, Group(src, pos, match.end)))]
        ELSE [raised |-> UnexpectedCharacter(src[pos + 1]), pos |-> pos, tokens |-> toks]

\* lines 39-51: one iteration of the while loop of tokenize at offset pos < len(src),
\* with toks the tokens found so far
LexStep(src, pos, toks) ==
    LET match == FirstMatch(src, pos)
    IN  IF match.found
        THEN [raised |-> NoException,
              pos    |-> match.end,
              tokens |-> IF match.type # "SKIP"
                         THEN Append(toks, Token(match.type, Group(src, pos, match.end)))
                         ELSE toks]
        ELSE [raised |-> UnexpectedCharacter(src[pos + 1]), pos |-> pos, tokens |-> toks]

\* lines 38-52: Lexer.tokenize run to its end from offset pos
RECURSIVE Tokenize(_, _, _)
Tokenize(src, pos, toks) ==
    IF pos < Len(src)
    THEN LET s == LexStep(src, pos, toks)
         IN  IF s.raised = NoException THEN Tokenize(src, s.pos, s.tokens) ELSE s
    ELSE [raised |-> NoException, pos |-> pos, tokens |-> toks]

-----------------------------------------------------------------------------
(* Syntax tree *)

\* Python's None, where a node or a value is expected
None == [node |-> "None"]

NumberNode(value) == [node |-> "Number", value |-> value]

\* the node with its operands exchanged
BinaryOperationNodeSwapped(left, operator, right) ==
    [node |-> "BinaryOperation", left |-> right, operator |-> operator, right |-> left]

\* the node built from token.type in place of token.value
BinaryOperationNodeOfType(left, operator, right) ==
    [node |-> "BinaryOperation", left |-> left, operator |-> <<"OPERATOR">>, right |-> right]

BinaryOperationNode(left, operator, right) ==
    [node |-> "BinaryOperation", left |-> left, operator |-> operator, right |-> right]

-----------------------------------------------------------------------------
(* Parser *)

NoToken == Token("None", <<>>)

DigitValue(c) ==
    CASE c = "0" -> 0 [] c = "1" -> 1 [] c = "2" -> 2 [] c = "3" -> 3 [] c = "4" -> 4
      [] c = "5" -> 5 [] c = "6" -> 6 [] c = "7" -> 7 [] c = "8" -> 8 [] c = "9" -> 9

\* int(token.value) for a run of digits
RECURSIVE ToInt(_)
ToInt(s) ==
    IF s = <<>> THEN 0
    ELSE 10 * ToInt(SubSeq(s, 1, Len(s) - 1)) + DigitValue(s[Len(s)])

\* the exception of line 80
ExpectedTokenType(token_type, found) ==
    [exc |-> "Exception",
     msg |-> <<"Expected token type ", token_type, ", but got ", found>>]

\* Parser.eat on the cursor (index, token) over the token list toks
Eat(token_type, index, token, toks) ==
    IF token.type = token_type
    THEN [raised |-> NoException,
          index  |-> index + 1,
          token  |-> IF index + 1 < Len(toks) THEN toks[index + 2] ELSE token]
    ELSE [raised |-> ExpectedTokenType(token_type, token.type),
          index  |-> index,
          token  |-> token]

\* factor without its test of the token type: eat('NUMBER') on any token
FactorUnchecked(index, token, toks) ==
    LET e == Eat("NUMBER", index, token, toks)
    IN  [raised |-> e.raised, index |-> e.index, token |-> e.token,
         node |-> IF e.raised = NoException
                  THEN NumberNode(ToInt(token.value))
                  ELSE None]

\* Parser.factor on the cursor (index, token): the node returned and the cursor after
Factor(index, token, toks) ==
    IF token.type = "NUMBER"
    THEN LET e == Eat("NUMBER", index, token, toks)
         IN  [raised |-> e.raised, index |-> e.index, token |-> e.token,
              node |-> IF e.raised = NoException
                       THEN NumberNode(ToInt(token.value))
                       ELSE None]
    ELSE [raised |-> NoException, index |-> index, token |-> token, node |-> None]

\* term with the operators of expr in its loop condition
TermOperatorsOfExpr == {"+", "-"}

\* the operators the while loop of term consumes
TermOperators == {"*", "/"}

\* the operators the while loop of expr consumes
ExprOperators == {"+", "-"}

\* the loop condition of term (line 90) and of expr (line 98)
AtOperator(token, operators) ==
    token.type = "OPERATOR" /\ token.value \in {<<o>> : o \in operators}

-----------------------------------------------------------------------------
(* Interpreter *)

\* A value is None, an int, a float or a raised exception.  An int and a
\* float carry the fraction num/den in lowest terms, den > 0.  A float is the
\* double nearest to num/den; `exact` says the double equals the fraction.
RECURSIVE Gcd(_, _)
Gcd(a, b) == IF b = 0 THEN a ELSE Gcd(b, a % b)

Abs(n) == IF n < 0 THEN -n ELSE n

RECURSIVE IsPowerOfTwo(_)
IsPowerOfTwo(n) ==
    IF n = 1 THEN TRUE
    ELSE IF n % 2 = 1 THEN FALSE
    ELSE IsPowerOfTwo(n \div 2)

NoneValue == [t |-> "None"]

IntValue(n) == [t |-> "int", num |-> n, den |-> 1, exact |-> TRUE]

\* the quotient as floor division gives it: an int
FloorDivValue(n, d, exactOperands) ==
    [t |-> "int", num |-> n \div d, den |-> 1, exact |-> TRUE]

FloatValue(n, d, exactOperands) ==
    LET g == Gcd(Abs(n), Abs(d))
        s == IF d < 0 THEN -1 ELSE 1
    IN  [t |-> "float", num |-> s * (n \div g), den |-> s * (d \div g),
         exact |-> exactOperands /\ IsPowerOfTwo(s * (d \div g))]

Raise(e) == [t |-> "raise", raised |-> e]

TypeName(v) ==
    CASE v.t = "None" -> "'NoneType'" [] v.t = "int" -> "'int'" [] v.t = "float" -> "'float'"

UnsupportedOperand(operator, l, r) ==
    [exc |-> "TypeError",
     msg |-> <<"unsupported operand type(s) for ", operator, ": ",
               TypeName(l), " and ", TypeName(r)>>]

DivisionByZero(l, r) ==
    [exc |-> "ZeroDivisionError",
     msg |-> IF l.t = "int" /\ r.t = "int"
             THEN <<"division by zero">>
             ELSE <<"float division by zero">>]

\* left_value <operator> right_value on two values that are not exceptions
\* (lines 121-128); an operator outside + - * / falls through and returns None
Apply(operator, l, r) ==
    IF operator \notin {<<o>> : o \in OperatorChars} THEN NoneValue
    ELSE IF l.t = "None" \/ r.t = "None"
    THEN Raise(UnsupportedOperand(operator[1], l, r))
    ELSE LET ints == l.t = "int" /\ r.t = "int"
             ex   == l.exact /\ r.exact
         IN  CASE operator = <<"+">> ->
                    IF ints THEN IntValue(l.num + r.num)
                    ELSE FloatValue(l.num * r.den + r.num * l.den, l.den * r.den, ex)
               [] operator = <<"-">> ->
                    IF ints THEN IntValue(l.num - r.num)
                    ELSE FloatValue(l.num * r.den - r.num * l.den, l.den * r.den, ex)
               [] operator = <<"*">> ->
                    IF ints THEN IntValue(l.num * r.num)
                    ELSE FloatValue(l.num * r.num, l.den * r.den, ex)
               [] operator = <<"/">> ->
                    IF r.num = 0 THEN Raise(DivisionByZero(l, r))
                    ELSE FloatValue(l.num * r.den, l.den * r.num, ex)

\* Interpreter.visit: left before right, the first exception propagates
RECURSIVE Visit(_)
Visit(n) ==
    CASE n.node = "Number" -> IntValue(n.value)
      [] n.node = "BinaryOperation" ->
            LET left_value == Visit(n.left)
            IN  IF left_value.t = "raise" THEN left_value
                ELSE LET right_value == Visit(n.right)
                     IN  IF right_value.t = "raise" THEN right_value
                         ELSE Apply(n.operator, left_value, right_value)
      [] OTHER -> NoneValue

Interpret(n) == Visit(n)

-----------------------------------------------------------------------------
(* Output *)

DigitChar(d) ==
    CASE d = 0 -> "0" [] d = 1 -> "1" [] d = 2 -> "2" [] d = 3 -> "3" [] d = 4 -> "4"
      [] d = 5 -> "5" [] d = 6 -> "6" [] d = 7 -> "7" [] d = 8 -> "8" [] d = 9 -> "9"

\* str(n) for an int n >= 0
RECURSIVE NatToStr(_)
NatToStr(n) ==
    IF n < 10 THEN <<DigitChar(n)>>
    ELSE NatToStr(n \div 10) \o <<DigitChar(n % 10)>>

\* str(n) for an int
IntToStr(n) == IF n < 0 THEN <<"-">> \o NatToStr(-n) ELSE NatToStr(n)

\* str(result) of print(result); the digits of a float's repr are not computed,
\* the text names the fraction the double is nearest to
Str(v) ==
    CASE v.t = "None"  -> <<"None">>
      [] v.t = "int"   -> IntToStr(v.num)
      [] v.t = "float" -> <<"repr(">> \o IntToStr(v.num) \o <<"/">> \o IntToStr(v.den) \o <<")">>

\* f"Error: {e}"
ErrorLine(e) == <<"Error: ">> \o e.msg

\* the exception of tokens[0] on an empty list (line 72)
IndexError == [exc |-> "IndexError", msg |-> <<"list index out of range">>]

-----------------------------------------------------------------------------
(* Input lines *)

\* str.strip()
RECURSIVE LStrip(_)
LStrip(s) ==
    IF s # <<>> /\ s[1] \in Whitespace THEN LStrip(Tail(s)) ELSE s

RECURSIVE RStrip(_)
RStrip(s) ==
    IF s # <<>> /\ s[Len(s)] \in Whitespace THEN RStrip(SubSeq(s, 1, Len(s) - 1)) ELSE s

Strip(s) == RStrip(LStrip(s))

ExitCommand == <<"e", "x", "i", "t">>

\* the test without strip()
IsExitUnstripped(line) == line = ExitCommand

\* the test as startswith("exit")
IsExitPrefix(line) ==
    Len(Strip(line)) >= 4 /\ SubSeq(Strip(line), 1, 4) = ExitCommand

\* line 197: code.strip() == "exit"
IsExit(line) == Strip(line) = ExitCommand

Alphabet == {"0", "2", "+", "*", "/", "(", ")", " ", "@", "#", "\"", "x"}

\* every line of at most MaxLen characters of Alphabet
CharLines == UNION {[1..k -> Alphabet] : k \in 0..MaxLen}

Numerals == {<<"0">>, <<"2">>, <<"3">>, <<"1", "0">>}

\* numeral (operator numeral)*, with n numerals
RECURSIVE ArithOf(_)
ArithOf(n) ==
    IF n = 1 THEN Numerals
    ELSE {l \o <<o>> \o m : l \in ArithOf(n - 1), o \in OperatorChars, m \in Numerals}

ArithLines == UNION {ArithOf(n) : n \in 1..MaxOperands}

ShortArith == UNION {ArithOf(n) : n \in 1..(MaxOperands - 1)}

\* an arithmetic line that ends in an operator
TrailingLines == {l \o <<o>> : l \in ShortArith, o \in OperatorChars}

\* an arithmetic line in parentheses
GroupLines == {<<"(">> \o l \o <<")">> : l \in ShortArith}

Pads == {<<>>, <<" ">>, <<"\t">>, <<" ", "\n">>}

\* the exit command and its near misses, padded with whitespace
ExitLines ==
    {a \o w \o b : a \in Pads, b \in Pads,
                   w \in {ExitCommand, <<"e", "x", "i">>, <<"e", "x", "i", "t", "s">>,
                          <<"e", "x", " ", "i", "t">>, <<"E", "x", "i", "t">>,
                          <<"e", "x", "i", "t", "(", ")">>}}

\* lines that serve as examples: precedence, associativity, division, grouping
ExampleLines ==
    {<<"2", "+", "3", "*", "4">>, <<"1", "0", "-", "2", "-", "3">>, <<"5", "/", "0">>,
     <<"7", "/", "2">>, <<"(", "2", "+", "3", ")">>, <<"1", "+">>, <<"2", "*">>}

\* lines with the categories that Alphabet leaves out: identifier, assign,
\* braces, newline
LexemeLines ==
    {<<"x", " ", "=", "2">>, <<"{", "2", "}">>, <<"_", "x", "2", "\n">>,
     <<"2", "x", "\t", "-">>}

Lines ==
    CharLines \cup ArithLines \cup TrailingLines \cup GroupLines \cup ExitLines
        \cup ExampleLines \cup LexemeLines

-----------------------------------------------------------------------------
(* The read-eval-print loop *)

Init ==
    /\ loop = "Running"
    /\ pc = "read"
    /\ code = <<>>
    /\ current_pos = 0
    /\ tokens = <<>>
    /\ current_token_index = 0
    /\ current_token = NoToken
    /\ term_node = None
    /\ term_token = NoToken
    /\ expr_node = None
    /\ expr_token = NoToken
    /\ ast = None
    /\ raised = NoException
    /\ result = NoneValue
    /\ printed = <<>>
    /\ calls = {}

\* Lexer(code) on a token list shared by every Lexer: the tokens of the lines
\* before are still in it
ReadReusingTokens(lines) ==
    /\ loop = "Running"
    /\ pc = "read"
    /\ \E line \in lines :
          /\ code' = line
          /\ IF Strip(line) = ExitCommand
             THEN /\ loop' = "Stopped"
                  /\ pc' = "exited"
                  /\ calls' = calls
             ELSE /\ loop' = loop
                  /\ pc' = "tokenize"
                  /\ calls' = calls \cup {"tokenize"}
    /\ current_pos' = 0
    /\ UNCHANGED <<tokens, current_token_index, current_token, term_node, term_token,
                   expr_node, expr_token, ast, raised, result, printed>>

\* lines 196-201: input() returns one of lines; the exit test, Lexer(code) and
\* the call of tokenize
Read(lines) ==
    /\ loop = "Running"
    /\ pc = "read"
    /\ \E line \in lines :
          /\ code' = line
          /\ IF IsExit(line)
             THEN /\ loop' = "Stopped"
                  /\ pc' = "exited"
                  /\ calls' = calls
             ELSE /\ loop' = loop
                  /\ pc' = "tokenize"
                  /\ calls' = calls \cup {"tokenize"}
    /\ current_pos' = 0
    /\ tokens' = <<>>
    /\ UNCHANGED <<current_token_index, current_token, term_node, term_token, expr_node,
                   expr_token, ast, raised, result, printed>>

ReadLine == Read(Lines)

\* lines 38-51: one iteration of the while loop of tokenize
TokenizeStep ==
    /\ pc = "tokenize"
    /\ current_pos < Len(code)
    /\ LET s == LexStep(code, current_pos, tokens)
       IN  /\ tokens' = s.tokens
           /\ current_pos' = s.pos
           /\ raised' = s.raised
           /\ pc' = IF s.raised = NoException THEN pc ELSE "except"
    /\ UNCHANGED <<loop, code, current_token_index, current_token, term_node, term_token,
                   expr_node, expr_token, ast, result, printed, calls>>

\* line 52: the loop of tokenize ends and the token list is returned
TokenizeReturn ==
    /\ pc = "tokenize"
    /\ ~(current_pos < Len(code))
    /\ pc' = "parser"
    /\ UNCHANGED <<loop, code, current_pos, tokens, current_token_index, current_token,
                   term_node, term_token, expr_node, expr_token, ast, raised, result,
                   printed, calls>>

\* lines 203-204 and 69-72: Parser(tokens), then parse() enters expr and term
NewParser ==
    /\ pc = "parser"
    /\ IF tokens = <<>>
       THEN /\ raised' = IndexError
            /\ pc' = "except"
            /\ UNCHANGED <<current_token_index, current_token, calls>>
       ELSE /\ current_token_index' = 0
            /\ current_token' = tokens[1]
            /\ calls' = calls \cup {"parse"}
            /\ pc' = "term"
            /\ UNCHANGED raised
    /\ UNCHANGED <<loop, code, current_pos, tokens, term_node, term_token, expr_node,
                   expr_token, ast, result, printed>>

\* The cursor and the trees of a parse that never ends grow without bound.  The
\* model records them while the cursor is less than MaxOverrun past the token
\* list; after that the loops keep running on the recorded values.  A cursor at
\* or past the end of the list never changes current_token again (line 77).
Following == current_token_index < Len(tokens) + MaxOverrun

\* line 89: term calls factor
TermFactor ==
    /\ pc = "term"
    /\ LET f == Factor(current_token_index, current_token, tokens)
       IN  IF f.raised = NoException
           THEN /\ term_node' = f.node
                /\ current_token_index' = f.index
                /\ current_token' = f.token
                /\ pc' = "term_loop"
                /\ UNCHANGED raised
           ELSE /\ raised' = f.raised
                /\ pc' = "except"
                /\ UNCHANGED <<term_node, current_token_index, current_token>>
    /\ UNCHANGED <<loop, code, current_pos, tokens, term_token, expr_node, expr_token,
                   ast, result, printed, calls>>

\* lines 90-92: the while loop of term takes an operator
TermEat ==
    /\ pc = "term_loop"
    /\ AtOperator(current_token, TermOperators)
    /\ LET e == Eat("OPERATOR", current_token_index, current_token, tokens)
       IN  IF e.raised = NoException
           THEN /\ term_token' = current_token
                /\ current_token_index' = IF Following THEN e.index ELSE current_token_index
                /\ current_token' = e.token
                /\ pc' = "term_right"
                /\ UNCHANGED raised
           ELSE /\ raised' = e.raised
                /\ pc' = "except"
                /\ UNCHANGED <<term_token, current_token_index, current_token>>
    /\ UNCHANGED <<loop, code, current_pos, tokens, term_node, expr_node, expr_token,
                   ast, result, printed, calls>>

\* line 93: the right operand of the operator, and the node of the two
TermRight ==
    /\ pc = "term_right"
    /\ LET f == Factor(current_token_index, current_token, tokens)
       IN  IF f.raised = NoException
           THEN /\ term_node' = IF Following
                                THEN BinaryOperationNode(term_node, term_token.value, f.node)
                                ELSE term_node
                /\ current_token_index' = f.index
                /\ current_token' = f.token
                /\ pc' = "term_loop"
                /\ UNCHANGED raised
           ELSE /\ raised' = f.raised
                /\ pc' = "except"
                /\ UNCHANGED <<term_node, current_token_index, current_token>>
    /\ UNCHANGED <<loop, code, current_pos, tokens, term_token, expr_node, expr_token,
                   ast, result, printed, calls>>

\* line 94: term returns its node to expr, line 97 (first call) or line 101
TermReturn ==
    /\ pc = "term_loop"
    /\ ~AtOperator(current_token, TermOperators)
    /\ expr_node' = IF expr_token = NoToken THEN term_node
                    ELSE IF Following
                    THEN BinaryOperationNode(expr_node, expr_token.value, term_node)
                    ELSE expr_node
    /\ term_node' = None
    /\ term_token' = NoToken
    /\ pc' = "expr_loop"
    /\ UNCHANGED <<loop, code, current_pos, tokens, current_token_index, current_token,
                   expr_token, ast, raised, result, printed, calls>>

\* lines 98-101: the while loop of expr takes an operator and calls term
ExprEat ==
    /\ pc = "expr_loop"
    /\ AtOperator(current_token, ExprOperators)
    /\ LET e == Eat("OPERATOR", current_token_index, current_token, tokens)
       IN  IF e.raised = NoException
           THEN /\ expr_token' = current_token
                /\ current_token_index' = IF Following THEN e.index ELSE current_token_index
                /\ current_token' = e.token
                /\ pc' = "term"
                /\ UNCHANGED raised
           ELSE /\ raised' = e.raised
                /\ pc' = "except"
                /\ UNCHANGED <<expr_token, current_token_index, current_token>>
    /\ UNCHANGED <<loop, code, current_pos, tokens, term_node, term_token, expr_node,
                   ast, result, printed, calls>>

\* lines 102, 105 and 204: expr returns its node, which parse returns to repl
ExprReturn ==
    /\ pc = "expr_loop"
    /\ ~AtOperator(current_token, ExprOperators)
    /\ ast' = expr_node
    /\ pc' = "interpret"
    /\ UNCHANGED <<loop, code, current_pos, tokens, current_token_index, current_token,
                   term_node, term_token, expr_node, expr_token, raised, result,
                   printed, calls>>

\* lines 206-207: Interpreter().interpret(ast)
InterpretAst ==
    /\ pc = "interpret"
    /\ calls' = calls \cup {"interpret"}
    /\ LET v == Interpret(ast)
       IN  IF v.t = "raise"
           THEN /\ raised' = v.raised
                /\ pc' = "except"
                /\ UNCHANGED result
           ELSE /\ result' = v
                /\ pc' = "print"
                /\ UNCHANGED raised
    /\ UNCHANGED <<loop, code, current_pos, tokens, current_token_index, current_token,
                   term_node, term_token, expr_node, expr_token, ast, printed>>

\* line 209: print(result)
PrintResult ==
    /\ pc = "print"
    /\ printed' = Append(printed, Str(result))
    /\ pc' = "prompt"
    /\ UNCHANGED <<loop, code, current_pos, tokens, current_token_index, current_token,
                   term_node, term_token, expr_node, expr_token, ast, raised,
                   result, calls>>

\* lines 210-211: except Exception as e: print(f"Error: {e}")
PrintError ==
    /\ pc = "except"
    /\ printed' = Append(printed, ErrorLine(raised))
    /\ pc' = "prompt"
    /\ UNCHANGED <<loop, code, current_pos, tokens, current_token_index, current_token,
                   term_node, term_token, expr_node, expr_token, ast, raised,
                   result, calls>>

\* line 194: the next iteration of `while True`; the objects of the last one are dropped
NextIteration ==
    /\ pc = "prompt"
    /\ pc' = "read"
    /\ code' = <<>>
    /\ current_pos' = 0
    /\ tokens' = <<>>
    /\ current_token_index' = 0
    /\ current_token' = NoToken
    /\ term_node' = None
    /\ term_token' = NoToken
    /\ expr_node' = None
    /\ expr_token' = NoToken
    /\ ast' = None
    /\ raised' = NoException
    /\ result' = NoneValue
    /\ printed' = <<>>
    /\ calls' = {}
    /\ UNCHANGED loop

Next ==
    \/ ReadLine
    \/ TokenizeStep
    \/ TokenizeReturn
    \/ NewParser
    \/ TermFactor
    \/ TermEat
    \/ TermRight
    \/ TermReturn
    \/ ExprEat
    \/ ExprReturn
    \/ InterpretAst
    \/ PrintResult
    \/ PrintError
    \/ NextIteration

Spec == Init /\ [][Next]_vars

\* the interpreter runs the loop without pause: a step that can be taken is taken
FairSpec == Spec /\ WF_vars(Next)

-----------------------------------------------------------------------------
(* A session *)

\* NextIteration forgets the objects of the line before.  In Python the names
\* code, lexer, tokens, parser, ast and result of repl stay bound to them until
\* they are assigned again; the frames of expr and term and the exception of the
\* except clause are gone.  Resume is the next iteration with the bound objects
\* kept, so a session shows what a line can see of the lines before it.
Resume ==
    /\ pc = "prompt"
    /\ pc' = "read"
    /\ term_node' = None
    /\ term_token' = NoToken
    /\ expr_node' = None
    /\ expr_token' = NoToken
    /\ raised' = NoException
    /\ printed' = <<>>
    /\ calls' = {}
    /\ UNCHANGED <<loop, code, current_pos, tokens, current_token_index, current_token,
                   ast, result>>

\* the lines typed in a session: one of each way a line can end
SessionLines ==
    {<<"2">>, <<"2", "+", "3">>, <<"2", "*", "3">>, <<"3", "-", "2">>,
     <<"2", "+", "3", "*", "4">>, <<"5", "/", "0">>, <<"@">>, <<"2", "@">>,
     <<"2", "+", "3", " ", "@">>, <<" ">>, <<"(">>, <<"2", ")">>, <<"+", "2">>,
     <<"\"", "x", "\"">>, <<"2", "*">>, <<"e", "x", "i", "t">>}

ReadSessionLine == Read(SessionLines)

SessionNext ==
    \/ ReadSessionLine
    \/ TokenizeStep
    \/ TokenizeReturn
    \/ NewParser
    \/ TermFactor
    \/ TermEat
    \/ TermRight
    \/ TermReturn
    \/ ExprEat
    \/ ExprReturn
    \/ InterpretAst
    \/ PrintResult
    \/ PrintError
    \/ Resume

SessionSpec == Init /\ [][SessionNext]_vars

-----------------------------------------------------------------------------
(* Properties *)

\* the iteration for the current line has printed and is about to prompt again
Answered == pc = "prompt"

\* parse() was called on the current line, so tokenize returned a non-empty list
Parsing == "parse" \in calls

\* the current line went through tokenize, parse and interpret, and was answered
Evaluated == Answered /\ "interpret" \in calls

\* the current line failed inside parse(): an exception left the parser
FailedInParser ==
    /\ Parsing
    /\ "interpret" \notin calls
    /\ raised # NoException
    /\ printed = <<ErrorLine(raised)>>

\* C1: a line whose first token is LPAREN, `(2+3)` among them, fails with an
\* error raised by the parser; no value and no empty result is printed.
C1_GroupingRejected ==
    (Answered /\ Parsing /\ tokens[1].type = "LPAREN") => FailedInParser

\* C2: every line that is not the exit command is answered: the loop prints
\* exactly one line for it and prompts again, so tokenize, parse and interpret
\* all end, also on a line that ends in an operator.
C2_EveryLineAnswered ==
    (pc = "tokenize") ~> (Answered /\ Len(printed) = 1)

\* a tree of NumberNode and BinaryOperationNode with every child present
RECURSIVE WellFormed(_)
WellFormed(n) ==
    \/ n.node = "Number"
    \/ /\ n.node = "BinaryOperation"
       /\ WellFormed(n.left)
       /\ WellFormed(n.right)

\* C3: when parse returns, its root is a NumberNode or a BinaryOperationNode and
\* every BinaryOperationNode of the tree has both children present.
C3_ParseWellFormed ==
    (pc = "interpret") => WellFormed(ast)

\* the lower and the higher precedence level, as operator texts
Additive == {<<"+">>, <<"-">>}

Multiplicative == {<<"*">>, <<"/">>}

\* the tokens of the current line are  number (operator number)*
IsArithmetic(toks) ==
    /\ Len(toks) % 2 = 1
    /\ \A i \in 1..Len(toks) :
          IF i % 2 = 1 THEN toks[i].type = "NUMBER" ELSE toks[i].type = "OPERATOR"

\* the expected trees, written out: a leaf holding v, and l o r
Leaf(v) == [node |-> "Number", value |-> v]

Join(l, o, r) == [node |-> "BinaryOperation", left |-> l, operator |-> o, right |-> r]

\* the leaf of the i-th token, and its value
Operand(i) == Leaf(ToInt(tokens[i].value))

ValueOf(i) == ToInt(tokens[i].value)

\* C4: * and / bind tighter than + and -:  a lo b hi c  parses as  a lo (b hi c)
\* and  a hi b lo c  as  (a hi b) lo c;  a+b*c  evaluates to a+(b*c),  a*b+c  to
\* (a*b)+c, and `2+3*4` prints 14.
C4_Precedence ==
    (Evaluated /\ IsArithmetic(tokens) /\ Len(tokens) = 5) =>
        LET lo(i) == tokens[i].value \in Additive
            hi(i) == tokens[i].value \in Multiplicative
            a == ValueOf(1)
            b == ValueOf(3)
            c == ValueOf(5)
        IN  /\ (lo(2) /\ hi(4)) =>
                  ast = Join(Operand(1), tokens[2].value,
                            Join(Operand(3), tokens[4].value, Operand(5)))
            /\ (hi(2) /\ lo(4)) =>
                  ast = Join(
                            Join(Operand(1), tokens[2].value, Operand(3)),
                            tokens[4].value, Operand(5))
            /\ (tokens[2].value = <<"+">> /\ tokens[4].value = <<"*">>) =>
                  /\ result = IntValue(a + (b * c))
                  /\ printed = <<IntToStr(a + (b * c))>>
            /\ (tokens[2].value = <<"*">> /\ tokens[4].value = <<"+">>) =>
                  /\ result = IntValue((a * b) + c)
                  /\ printed = <<IntToStr((a * b) + c)>>
            /\ (code = <<"2", "+", "3", "*", "4">>) => printed = << <<"1", "4">> >>

\* `2+3*4` has been answered with 14
C4_Witness ==
    /\ Answered
    /\ code = <<"2", "+", "3", "*", "4">>
    /\ printed = << <<"1", "4">> >>

\* the left fold of  number (operator number)*
RECURSIVE LeftFold(_)
LeftFold(toks) ==
    IF Len(toks) = 1 THEN Leaf(ToInt(toks[1].value))
    ELSE Join(LeftFold(SubSeq(toks, 1, Len(toks) - 2)),
                             toks[Len(toks) - 1].value,
                             Leaf(ToInt(toks[Len(toks)].value)))

\* a - b - c ... taken from the left
RECURSIVE LeftDifference(_)
LeftDifference(toks) ==
    IF Len(toks) = 1 THEN ToInt(toks[1].value)
    ELSE LeftDifference(SubSeq(toks, 1, Len(toks) - 2)) - ToInt(toks[Len(toks)].value)

\* every operator of toks is in the level
AllIn(toks, level) ==
    \A i \in 1..Len(toks) : toks[i].type = "OPERATOR" => toks[i].value \in level

\* C5: a chain of operators of one precedence level folds from the left: each
\* operator wraps the node built so far as left and the next operand as right;
\* a chain of `-` evaluates to ((a-b)-c)..., and `10-2-3` prints 5.
C5_LeftAssociative ==
    (Evaluated /\ IsArithmetic(tokens) /\ Len(tokens) >= 3) =>
        /\ (AllIn(tokens, Additive) \/ AllIn(tokens, Multiplicative)) =>
              ast = LeftFold(tokens)
        /\ AllIn(tokens, {<<"-">>}) =>
              /\ result = IntValue(LeftDifference(tokens))
              /\ printed = <<IntToStr(LeftDifference(tokens))>>
        /\ (code = <<"1", "0", "-", "2", "-", "3">>) => printed = << <<"5">> >>

\* `10-2-3` has been answered with 5
C5_Witness ==
    /\ Answered
    /\ code = <<"1", "0", "-", "2", "-", "3">>
    /\ ast = Join(
                 Join(Leaf(10), <<"-">>, Leaf(2)),
                 <<"-">>, Leaf(3))
    /\ printed = << <<"5">> >>

\* the characters that some lexical category can match
Recognized ==
    Digits \cup Letters \cup
        {"_", "\"", "=", "+", "-", "*", "/", "(", ")", "{", "}", "\n", " ", "\t"}

\* c occurs in the sequence s, and how often
Occurs(c, s) == \E i \in 1..Len(s) : s[i] = c

Count(c, s) == Cardinality({i \in 1..Len(s) : s[i] = c})

\* the pieces of text hold the characters of s next to each other
Mentions(text, s) ==
    \E k \in 0..(Len(text) - Len(s)) : SubSeq(text, k + 1, k + Len(s)) = s

\* tokenize has ended on the current line, by return or by exception
TokenizeEnded == pc \notin {"read", "tokenize", "exited"}

\* tokenize has ended on the current line with the exception of line 51
LexFailed ==
    /\ TokenizeEnded
    /\ ~Parsing
    /\ raised.exc = "Exception"

\* the sum of Count(c, value) over the tokens of toks
RECURSIVE CountInTokens(_, _)
CountInTokens(c, toks) ==
    IF toks = <<>> THEN 0
    ELSE Count(c, toks[1].value) + CountInTokens(c, Tail(toks))

RECURSIVE Concat(_)
Concat(toks) ==
    IF toks = <<>> THEN <<>> ELSE toks[1].value \o Concat(Tail(toks))

\* tokenize has just returned the tokens of the current line
TokenizeReturned == pc = "parser"

\* tokenize on the literals of the tokens of the current line
Retokenized == Tokenize(Concat(tokens), 0, <<>>)

RoundTrips == Retokenized.raised = NoException /\ Retokenized.tokens = tokens

\* C7 as stated: the literals of the tokens of a line that tokenizes, put
\* together without the skipped whitespace, tokenize to the same tokens.
C7_RoundTrip == TokenizeReturned => RoundTrips

\* token b, put right after token a, is lexed as part of a
Merges(a, b) ==
    \/ a.type = "NUMBER" /\ b.type = "NUMBER"
    \/ a.type = "IDENTIFIER" /\ b.type \in {"IDENTIFIER", "NUMBER"}

\* C7, amended: the literals of the tokens of a line that tokenizes, put
\* together, tokenize to the same tokens exactly when no token is followed by one
\* that merges into it once the whitespace between them is gone: a NUMBER after a
\* NUMBER, or an IDENTIFIER or NUMBER after an IDENTIFIER.
C7_RoundTripUnlessMerged ==
    TokenizeReturned =>
        (RoundTrips <=> ~\E i \in 1..(Len(tokens) - 1) : Merges(tokens[i], tokens[i + 1]))

\* a line with skipped whitespace whose literals tokenize to the same tokens
C7_Witness ==
    /\ TokenizeReturned
    /\ Len(tokens) >= 2
    /\ Len(Concat(tokens)) < Len(code)
    /\ RoundTrips

\* the nodes of the tree n
RECURSIVE Subnodes(_)
Subnodes(n) ==
    IF n.node = "BinaryOperation"
    THEN {n} \cup Subnodes(n.left) \cup Subnodes(n.right)
    ELSE {n}

\* the number zero, as an int or as a float
IsZero(v) == v.t \in {"int", "float"} /\ v.num = 0

\* a division of the tree whose right operand evaluates to zero
ZeroDivisions(n) ==
    {d \in Subnodes(n) :
        /\ d.node = "BinaryOperation"
        /\ d.operator = <<"/">>
        /\ IsZero(Visit(d.right))}

\* C8: evaluating a division whose right operand evaluates to zero fails with
\* the divide-by-zero error; the loop prints an Error line for such a line,
\* `5/0` among them, and stays Running.
C8_DivisionByZeroFails ==
    ("interpret" \in calls /\ ZeroDivisions(ast) # {}) =>
        /\ \A d \in ZeroDivisions(ast) :
              Visit(d).t = "raise" /\ Visit(d).raised.exc = "ZeroDivisionError"
        /\ raised.exc = "ZeroDivisionError"
        /\ loop = "Running"
        /\ Answered => printed = <<ErrorLine(raised)>>

\* the line is `exit` between runs of whitespace
IsExitLine(line) ==
    \E i \in 1..Len(line) :
        /\ i + 3 <= Len(line)
        /\ SubSeq(line, i, i + 3) = <<"e", "x", "i", "t">>
        /\ \A k \in (1..(i - 1)) \cup ((i + 4)..Len(line)) :
              line[k] \in {" ", "\t", "\n", "\r", "\f"}

\* C9: reading a line that trims to `exit` takes the loop from Running to
\* Stopped with no call of tokenize, parse or interpret and nothing printed, and
\* no step leaves Stopped: no further line is read.
C9_ExitStops ==
    [][ /\ (pc = "read" /\ IsExitLine(code')) =>
              (loop = "Running" /\ loop' = "Stopped" /\ calls' = {} /\ printed' = <<>>)
        /\ loop # "Stopped" ]_vars

\* the loop has stopped on `exit` typed between whitespace
C9_Witness ==
    /\ loop = "Stopped"
    /\ code = <<" ", "e", "x", "i", "t", "\t">>
    /\ calls = {}

\* C10: the loop leaves Running only when it reads a line that trims to `exit`;
\* after any other line, failing or empty, it is Running.
C10_StopsOnlyOnExit ==
    [][ /\ loop' \in {"Running", "Stopped"}
        /\ (loop = "Running" /\ loop' = "Stopped") => (pc = "read" /\ IsExitLine(code'))
        /\ (pc = "read" /\ ~IsExitLine(code')) => loop' = "Running" ]_vars

\* a line of whitespace alone has failed in Parser.__init__ and the loop runs on
C10_Witness ==
    /\ Answered
    /\ code # <<>>
    /\ tokens = <<>>
    /\ raised = IndexError
    /\ printed = << <<"Error: ", "list index out of range">> >>
    /\ loop = "Running"

\* the line is one or more digits and nothing else
AllDigits(line) ==
    /\ line # <<>>
    /\ \A i \in 1..Len(line) :
          line[i] \in {"0", "1", "2", "3", "4", "5", "6", "7", "8", "9"}

\* C11: tokenizing a line of one or more digits yields exactly one token, of
\* type NUMBER, whose value is the whole line: the run of digits is taken in one
\* iteration of the loop and is never split.
C11_DigitsOneNumber ==
    /\ (TokenizeEnded /\ AllDigits(code)) =>
          /\ ~LexFailed
          /\ tokens = <<[type |-> "NUMBER", value |-> code]>>
          /\ current_pos = Len(code)
    /\ (pc = "tokenize" /\ AllDigits(code)) =>
          \/ current_pos = 0 /\ tokens = <<>>
          \/ current_pos = Len(code) /\ tokens = <<[type |-> "NUMBER", value |-> code]>>

\* tokenize has returned one NUMBER token for `202`
C11_Witness ==
    /\ TokenizeReturned
    /\ code = <<"2", "0", "2">>
    /\ tokens = <<[type |-> "NUMBER", value |-> <<"2", "0", "2">>]>>

\* the tokens of the current line are  a / b  with b not zero
IsQuotient(toks) ==
    /\ Len(toks) = 3
    /\ toks[1].type = "NUMBER"
    /\ toks[2] = [type |-> "OPERATOR", value |-> <<"/">>]
    /\ toks[3].type = "NUMBER"
    /\ ToInt(toks[3].value) # 0

\* d is 1, 2, 4, 8, ...
PowerOfTwo(d) == \E k \in 0..30 : d = 2 ^ k

\* C12 as stated: for all integers a and b, b not zero, `a/b` evaluates to the
\* exact quotient: the value q satisfies q * b = a.
C12_ExactQuotient ==
    (Evaluated /\ IsQuotient(tokens)) =>
        /\ result.t \in {"int", "float"}
        /\ result.exact
        /\ result.num * ValueOf(3) = ValueOf(1) * result.den

\* C12, amended: for all number literals a and b, b not zero, `a/b` evaluates
\* to a float, never to an int and never truncated: the double nearest to the
\* quotient a/b.  The double is the quotient itself exactly when the quotient in
\* lowest terms has a power of two as denominator (`7/2` yields 3.5, `10/2`
\* yields 5.0); otherwise it is only the nearest double (`2/3`).
C12_TrueDivision ==
    (Evaluated /\ IsQuotient(tokens)) =>
        /\ result.t = "float"
        /\ result.den > 0
        /\ result.num * ValueOf(3) = ValueOf(1) * result.den
        /\ \A g \in 2..result.den : ~(result.num % g = 0 /\ result.den % g = 0)
        /\ result.exact <=> PowerOfTwo(result.den)
        /\ (code = <<"7", "/", "2">>) =>
              result = [t |-> "float", num |-> 7, den |-> 2, exact |-> TRUE]
        /\ (code = <<"1", "0", "/", "2">>) =>
              result = [t |-> "float", num |-> 5, den |-> 1, exact |-> TRUE]
        /\ (code = <<"2", "/", "3">>) =>
              result = [t |-> "float", num |-> 2, den |-> 3, exact |-> FALSE]

\* `7/2` has been answered with the float 3.5
C12_Witness ==
    /\ Evaluated
    /\ code = <<"7", "/", "2">>
    /\ result = [t |-> "float", num |-> 7, den |-> 2, exact |-> TRUE]
    /\ Len(printed) = 1

\* the step calls eat on a token of the expected type: factor on a NUMBER, or
\* the loop of term or of expr on its operator
EatStep ==
    \/ pc \in {"term", "term_right"} /\ current_token.type = "NUMBER"
    \/ pc = "term_loop" /\ pc' = "term_right"
    \/ pc = "expr_loop" /\ pc' = "term"

\* the smaller of two numbers
Least(a, b) == IF a < b THEN a ELSE b

\* C13 as stated: while a non-empty token list is parsed the index satisfies
\* 0 <= index < len(tokens) and never decreases, an eat advances it as
\* index = min(index + 1, len(tokens) - 1), and the current token is
\* tokens[index].
C13_CursorClamped ==
    [][ /\ Parsing' =>
              /\ 0 <= current_token_index'
              /\ current_token_index' < Len(tokens')
              /\ current_token' = tokens'[current_token_index' + 1]
        /\ (Parsing /\ Parsing') =>
              /\ current_token_index' >= current_token_index
              /\ current_token_index' =
                     IF EatStep
                     THEN Least(current_token_index + 1, Len(tokens) - 1)
                     ELSE current_token_index ]_vars

\* the characters of src at offsets from..(to - 1) are skipped whitespace
Skipped(src, from, to) ==
    \A k \in from..(to - 1) : src[k + 1] \in {" ", "\t"}

\* src from offset `from` up to offset `to` is the literals of toks in their
\* order, each a non-empty piece of src, with skipped whitespace before, between
\* and after them and nothing else
RECURSIVE Covers(_, _, _, _)
Covers(src, from, toks, to) ==
    IF toks = <<>> THEN Skipped(src, from, to)
    ELSE \E s \in from..to :
            LET e == s + Len(toks[1].value)
            IN  /\ Skipped(src, from, s)
                /\ s < e
                /\ e <= to
                /\ SubSeq(src, s + 1, e) = toks[1].value
                /\ Covers(src, e, Tail(toks), to)

\* C14: at every step of tokenize the literals of the tokens emitted so far
\* are non-empty pieces of the line, in the order of the line, and together with
\* the skipped whitespace they cover the line from offset 0 up to the cursor
\* with no gap and no overlap; when tokenize returns they cover the whole line.
C14_TokensPartitionPrefix ==
    /\ (pc = "tokenize" \/ TokenizeReturned \/ (pc = "except" /\ LexFailed)) =>
          /\ 0 <= current_pos
          /\ current_pos <= Len(code)
          /\ \A k \in 1..Len(tokens) : tokens[k].value # <<>>
          /\ Covers(code, 0, tokens, current_pos)
    /\ TokenizeReturned => current_pos = Len(code)

\* tokenize is in its loop on `2 +`: it has emitted `2`, skipped the blank and
\* stands before `+`
C14_Witness ==
    /\ pc = "tokenize"
    /\ code = <<"2", " ", "+">>
    /\ current_pos = 2
    /\ tokens = <<[type |-> "NUMBER", value |-> <<"2">>]>>

\* C15: tokenize ends on every line.  The cursor starts at 0; an iteration of
\* the loop either fails, with the cursor where it was, or moves the cursor
\* forward by at least one character and not past the end of the line; the
\* cursor never moves back, and the loop ends exactly when the cursor is at the
\* end of the line.  So the loop runs at most len(code) times.
C15_CursorAdvances ==
    [][ /\ (pc = "read" /\ pc' = "tokenize") => current_pos' = 0
        /\ (pc = "tokenize") =>
              /\ code' = code
              /\ 0 <= current_pos
              /\ current_pos <= Len(code)
              /\ \/ /\ pc' = "tokenize"
                    /\ raised' = NoException
                    /\ current_pos < current_pos'
                    /\ current_pos' <= Len(code)
                 \/ /\ pc' = "except"
                    /\ raised' # NoException
                    /\ current_pos < Len(code)
                    /\ current_pos' = current_pos
                 \/ /\ pc' = "parser"
                    /\ current_pos' = current_pos
              /\ (pc' = "parser") <=> (current_pos = Len(code)) ]_vars

\* the loop has taken `20` in one iteration and the blank in the next, and
\* stands at the end of the line
C15_Witness ==
    /\ pc = "tokenize"
    /\ code = <<"2", "0", " ">>
    /\ tokens = <<[type |-> "NUMBER", value |-> <<"2", "0">>]>>
    /\ current_pos = Len(code)

UnknownOperators(n) ==
    {d \in Subnodes(n) :
        /\ d.node = "BinaryOperation"
        /\ d.operator \notin {<<"+">>, <<"-">>, <<"*">>, <<"/">>}}

\* C17: the operator of every BinaryOperation node the parser builds, in term,
\* in expr and in the tree parse returns, is one of + - * /; term stores only
\* * and /.  So visit_binary_operation never falls through its four cases on a
\* tree that comes from parse.
C17_OperatorsKnown ==
    /\ UnknownOperators(term_node) = {}
    /\ UnknownOperators(expr_node) = {}
    /\ UnknownOperators(ast) = {}
    /\ \A d \in Subnodes(term_node) :
          d.node = "BinaryOperation" => d.operator \in {<<"*">>, <<"/">>}
    /\ term_token # [type |-> "None", value |-> <<>>] =>
          term_token.type = "OPERATOR" /\ term_token.value \in {<<"*">>, <<"/">>}
    /\ expr_token # [type |-> "None", value |-> <<>>] =>
          expr_token.type = "OPERATOR" /\ expr_token.value \in {<<"+">>, <<"-">>}

\* parse has returned a tree of two nodes, a `-` over a `/`, to the interpreter
C17_Witness ==
    /\ pc = "interpret"
    /\ ast.node = "BinaryOperation"
    /\ ast.operator = <<"-">>
    /\ ast.right.node = "BinaryOperation"
    /\ ast.right.operator = <<"/">>

\* what the loop prints for a line of a session when the line is the first one
\* typed, as pieces of text
OutputAlone(line) ==
    CASE line = <<"2">>                     -> <<"2">>
      [] line = <<"2", "+", "3">>           -> <<"5">>
      [] line = <<"2", "*", "3">>           -> <<"6">>
      [] line = <<"3", "-", "2">>           -> <<"1">>
      [] line = <<"2", "+", "3", "*", "4">> -> <<"1", "4">>
      [] line = <<"5", "/", "0">>           -> <<"Error: ", "division by zero">>
      [] line = <<"@">>                     -> <<"Error: ", "Unexpected character: ", "@">>
      [] line = <<"2", "@">>                -> <<"Error: ", "Unexpected character: ", "@">>
      [] line = <<"2", "+", "3", " ", "@">> -> <<"Error: ", "Unexpected character: ", "@">>
      [] line = <<" ">>                     -> <<"Error: ", "list index out of range">>
      [] line = <<"(">>                     -> <<"None">>
      [] line = <<"2", ")">>                -> <<"2">>
      [] line = <<"+", "2">>                ->
             <<"Error: ", "unsupported operand type(s) for ", "+", ": ",
               "'NoneType'", " and ", "'int'">>
      [] line = <<"\"", "x", "\"">>         -> <<"None">>

\* C18: the lines of a session are evaluated one by one, each on its own: what
\* the loop prints for a line is what it prints for that line typed first,
\* whatever lines, failing ones among them, came before.  Every stage starts
\* anew: tokenize at offset 0 with an empty token list, the parser at index 0 of
\* the tokens of this line, the interpreter on the tree of this line.
C18_LinesIndependent ==
    [][ /\ Answered' => printed' = <<OutputAlone(code')>>
        /\ (pc = "read" /\ pc' = "tokenize") =>
              /\ current_pos' = 0
              /\ tokens' = <<>>
        /\ (pc = "tokenize" /\ pc' = "parser") =>
              tokens = Tokenize(code, 0, <<>>).tokens
        /\ (pc = "parser" /\ pc' = "term") =>
              /\ current_token_index' = 0
              /\ current_token' = tokens[1]
              /\ term_node' = [node |-> "None"]
              /\ expr_node' = [node |-> "None"]
        /\ (pc = "expr_loop" /\ pc' = "interpret") => ast' = expr_node
        /\ (pc = "interpret" /\ pc' = "print") => result' = Interpret(ast) ]_vars

\* `@` has been answered with its own error while the index of the parser, the
\* tree and the result of an earlier line, `2+3`, are still bound
C18_Witness ==
    /\ Answered
    /\ code = <<"@">>
    /\ printed = << <<"Error: ", "Unexpected character: ", "@">> >>
    /\ current_token_index = 3
    /\ ast = [node |-> "BinaryOperation",
              left |-> [node |-> "Number", value |-> 2],
              operator |-> <<"+">>,
              right |-> [node |-> "Number", value |-> 3]]
    /\ result = [t |-> "int", num |-> 5, den |-> 1, exact |-> TRUE]

\* C19: while a line is parsed, eat is called only on a token that has the
\* type it is asked for: factor calls eat('NUMBER') on a NUMBER, term and expr
\* call eat('OPERATOR') on an OPERATOR.  So eat never raises, and no line is
\* answered with `Expected token type ..., but got ...`.
C19_EatNeverMismatches ==
    [][ /\ EatStep =>
              /\ pc \in {"term", "term_right"} => current_token.type = "NUMBER"
              /\ pc \in {"term_loop", "expr_loop"} => current_token.type = "OPERATOR"
              /\ raised' = raised
              /\ pc' # "except"
        /\ (pc \in {"term", "term_right", "term_loop", "expr_loop"}) =>
              /\ pc' # "except"
              /\ raised' = [exc |-> "None", msg |-> <<>>]
        /\ raised'.msg # <<>> => raised'.msg[1] # "Expected token type "
        /\ \A k \in 1..Len(printed') :
              \A j \in 1..Len(printed'[k]) : printed'[k][j] # "Expected token type " ]_vars

\* the parser has eaten the NUMBER and the OPERATOR of `2+` and goes on to the
\* right operand with no exception raised
C19_Witness ==
    /\ pc = "term"
    /\ code = <<"2", "+">>
    /\ current_token_index = 2
    /\ expr_token = [type |-> "OPERATOR", value |-> <<"+">>]
    /\ raised = [exc |-> "None", msg |-> <<>>]

\* the categories in the order tokenize tries them
Categories ==
    <<"NUMBER", "STRING", "IDENTIFIER", "ASSIGN", "OPERATOR", "LPAREN", "RPAREN",
      "LBRACE", "RBRACE", "NEWLINE", "SKIP">>

\* the category that matches at the cursor with none before it in the order
\* matching there: a set of one index, or empty when no category matches
FirstCategory ==
    {i \in 1..Len(Categories) :
        /\ MatchEnd(Categories[i], code, current_pos) # NoMatch
        /\ \A j \in 1..(i - 1) : MatchEnd(Categories[j], code, current_pos) = NoMatch}

\* C20: at each cursor position tokenize tries the categories in the order
\* NUMBER, STRING, IDENTIFIER, ASSIGN, OPERATOR, LPAREN, RPAREN, LBRACE, RBRACE,
\* NEWLINE, SKIP.  The first that matches at the cursor gives the type of the
\* token, its text and the new cursor, the end of that match, whatever the
\* categories after it would match; a SKIP match moves the cursor and emits no
\* token; when none matches the iteration fails.
C20_FirstMatchWins ==
    [][ (pc = "tokenize" /\ current_pos < Len(code)) =>
            IF FirstCategory = {}
            THEN /\ pc' = "except"
                 /\ tokens' = tokens
                 /\ current_pos' = current_pos
            ELSE \A i \in FirstCategory :
                    LET end == MatchEnd(Categories[i], code, current_pos)
                    IN  /\ pc' = "tokenize"
                        /\ current_pos' = end
                        /\ tokens' =
                               IF Categories[i] = "SKIP" THEN tokens
                               ELSE tokens \o <<[type  |-> Categories[i],
                                                 value |-> SubSeq(code, current_pos + 1, end)]>>
      ]_vars

\* on `x =2` tokenize has emitted IDENTIFIER and ASSIGN and no token for the
\* blank between them
C20_Witness ==
    /\ pc = "tokenize"
    /\ code = <<"x", " ", "=", "2">>
    /\ current_pos = 3
    /\ tokens = <<[type |-> "IDENTIFIER", value |-> <<"x">>],
                  [type |-> "ASSIGN", value |-> <<"=">>]>>

====
